---- MODULE Spec2Model ----
(***************************************************************************)
(* Model of the session registry, the SSO login state machine and the      *)
(* timeout-bounded request handlers of src/src/api.rs, together with the   *)
(* error-to-status mapping of src/src/error.rs.                            *)
(*                                                                         *)
(* Every HTTP request is handled by one task.  A handler is cut into steps *)
(* at its suspension points: the acquisition of the registry RwLock and     *)
(* every await of a call to the matrix_sdk client (the capability).        *)
(***************************************************************************)
EXTENDS Naturals, Sequences, FiniteSets, TLC

(* ------------------------------ bounds -------------------------------- *)

\* Number of requests served in one run of the model.
MaxRequests == 4

\* Request-handling tasks that may run at the same time.
TaskSeq == <<"t1", "t2">>
Tasks == {TaskSeq[i] : i \in 1..Len(TaskSeq)}

\* Values Uuid::new_v4() can return (and session ids a caller can send).
SessionSeq == <<"u1", "u2">>
SessionIds == {SessionSeq[i] : i \in 1..Len(SessionSeq)}

\* Room ids known to the homeserver, in the order the SDK lists them.
RoomSeq == << <<"!", "a">>, <<"!", "b">>, <<"!", "c">> >>
RoomIds == {RoomSeq[i] : i \in 1..Len(RoomSeq)}

\* Strings callers put in the {room_id} path segment: a room id and a room
\* alias, which is not a room id.
RoomIdStrs == {RoomSeq[1], <<"#", "a">>}

\* Sets of joined rooms a sync response can list.
SyncJoins == {{}, RoomIds}

\* Room ids the homeserver gives to created rooms.
CreatedRoomIds == {RoomSeq[2]}

\* Error texts the capability can report for a token exchange, and for the
\* other calls.
ErrTexts == {"M_FORBIDDEN", "M_UNKNOWN"}
CallErrTexts == {"M_LIMIT_EXCEEDED"}

\* Continuation tokens the homeserver can return from a sync.
BatchTokens == {"s72594_4483"}

\* Event ids the homeserver can return.
EventIds == {"$ev1"}

(* ------------------------- program constants -------------------------- *)

\* Overall deadline of the rooms request, in seconds.
RoomsDeadlineSecs == 30

\* Deadline of one display-name fetch inside the rooms request, in seconds.
DisplayNameDeadlineSecs == 10

\* The long-poll timeout sync_once passes to the homeserver in SyncSettings.
SyncLongPollSecs == 60

\* A deadline on sync_once that is no longer than the long poll it wraps.
SyncDeadlineOfLongPoll == SyncLongPollSecs

\* Deadline around sync_once.
SyncDeadlineSecs == 90

\* Deadlines around room.messages, room.send, create_room, join_room_by_id
\* and room.leave.
MessagesDeadlineSecs == 30
SendDeadlineSecs == 5

\* A create_room that is given the budget of a read.
CreateDeadlineOfRead == MessagesDeadlineSecs

CreateDeadlineSecs == 10
JoinDeadlineSecs == 10
LeaveDeadlineSecs == 10

\* An awaited call that is not wrapped in tokio::time::timeout.
NoDeadline == 0

None == "None"
NoRoom == <<"-", "-">>

VARIABLES
    sessions,     \* ApiState.sessions: session id -> Session {client, error}
    lockQueue,    \* tasks waiting for the registry RwLock, in arrival order
    lockHolders,  \* tasks holding the registry RwLock (readers, or one writer)
    issued,       \* session ids Uuid::new_v4() has returned so far
    logged_in,    \* per client: the SDK's "has a session" flag
    store,        \* per client: the SDK's room store, room id -> state
    pc,           \* per task: position in its handler
    req,          \* per task: the request being handled
    loc,          \* per task: the handler's local variables
    resp,         \* per task: the HTTP response of the finished request
    nreq,         \* requests begun so far
    history,      \* per session: what completed callbacks did (history variable)
    seen,         \* per task: what the handler met while serving the request
    reported,     \* per session: the last status login_status reported
    started       \* session ids returned by successful login_sso_start responses

vars == <<sessions, lockQueue, lockHolders, issued, logged_in, store, pc, req,
          loc, resp, nreq, history, seen, reported, started>>

(* ------------------------------ error.rs ------------------------------ *)

\* ApiError values: the variant and the text it carries.
ApiError(variant, text) == [variant |-> variant, text |-> text]

\* impl Display for ApiError (#[error("...")]).
to_string(e) ==
    CASE e.variant = "MatrixError"    -> <<"Matrix SDK error: ", e.text>>
      [] e.variant = "InvalidSession" -> <<"Invalid session ID">>
      [] e.variant = "NotLoggedIn"    -> <<"Not logged in">>
      [] e.variant = "MatrixSdk"      -> <<"Matrix SDK error: ", e.text>>
      [] e.variant = "Http"           -> <<"HTTP error: ", e.text>>
      [] OTHER                        -> <<e.variant>>

\* Every error but NotLoggedIn blamed on the caller: upstream failures and
\* timeouts answered as bad requests.
status_code_client_fault(e) ==
    IF e.variant = "NotLoggedIn" THEN 401 ELSE 400

\* ApiError::error_response: the status code of each variant and the JSON body.
status_code(e) ==
    CASE e.variant = "InvalidSession" -> 400
      [] e.variant = "NotLoggedIn"    -> 401
      [] OTHER                        -> 500

error_response(e) == [code |-> status_code(e), body |-> [error |-> to_string(e)]]

\* HttpResponse::Ok().json(body)
OkJson(body) == [code |-> 200, body |-> body]

\* HttpResponse::Ok().body(text) / HttpResponse::BadRequest().body(text)
OkText(text) == [code |-> 200, body |-> [text |-> text]]
BadRequestText(text) == [code |-> 400, body |-> [text |-> text]]

NoResp == [code |-> 0, body |-> [none |-> TRUE]]

(* ------------------------------ requests ------------------------------ *)

WriteOps == {"login_sso_start", "login_sso_callback", "create_test_session"}
RoomOps == {"room_messages", "send_message", "join_room", "leave_room"}
ReadOps == {"login_status", "sync", "rooms", "create_room"} \cup RoomOps
Ops == WriteOps \cup ReadOps

NoReq == [op |-> "none", sid |-> None, room |-> NoRoom, during |-> {}]
NoOut == [kind |-> "none"]
NoLoc == [session_id |-> None, client |-> None, out |-> NoOut, list |-> <<>>,
          infos |-> <<>>, elapsed |-> 0, calls |-> 0,
          deadline |-> NoDeadline, long_poll |-> 0]

\* The deadline, in seconds, each handler puts around its capability call.
deadline_of(op) ==
    CASE op = "sync"         -> SyncDeadlineSecs
      [] op = "rooms"        -> RoomsDeadlineSecs
      [] op = "room_messages" -> MessagesDeadlineSecs
      [] op = "send_message" -> SendDeadlineSecs
      [] op = "create_room"  -> CreateDeadlineSecs
      [] op = "join_room"    -> JoinDeadlineSecs
      [] op = "leave_room"   -> LeaveDeadlineSecs
      [] OTHER               -> NoDeadline
NoHist == [accepted |-> FALSE, rejected |-> FALSE, retried |-> FALSE,
           last |-> None]
NoSeen == [known |-> FALSE, hist |-> NoHist, out |-> NoOut, list |-> <<>>,
           calls |-> 0]

Busy(t) == pc[t] \notin {"idle", "done"}

\* A new request goes to the first task that is not handling one.
Free(t) ==
    \E i \in 1..Len(TaskSeq) :
       /\ TaskSeq[i] = t
       /\ ~Busy(t)
       /\ \A j \in 1..(i - 1) : Busy(TaskSeq[j])

(* ---------------------- tokio::sync::RwLock --------------------------- *)

\* Every handler taken for a reader: callbacks no longer exclude one another.
IsWriter_never(t) == FALSE

\* The lock is fair: waiters are served in arrival order.  A reader is
\* admitted when no writer holds the lock, a writer when nobody holds it.
IsWriter(t) == req[t].op \in WriteOps

\* A lock that admits a reader while a writer holds it.
CanAcquire_readers_pass(t) ==
    /\ pc[t] = "lock_wait"
    /\ lockQueue # <<>>
    /\ Head(lockQueue) = t
    /\ IsWriter(t) => lockHolders = {}

CanAcquire(t) ==
    /\ pc[t] = "lock_wait"
    /\ lockQueue # <<>>
    /\ Head(lockQueue) = t
    /\ IF IsWriter(t) THEN lockHolders = {}
       ELSE \A h \in lockHolders : ~IsWriter(h)

\* The guard is taken and dropped in the same step (the handler returns
\* without awaiting anything while it holds the lock).
AcquireAndRelease(t) ==
    /\ CanAcquire(t)
    /\ lockQueue' = Tail(lockQueue)
    /\ UNCHANGED lockHolders

\* The guard is taken and kept across the next await.
AcquireAndHold(t) ==
    /\ CanAcquire(t)
    /\ lockQueue' = Tail(lockQueue)
    /\ lockHolders' = lockHolders \cup {t}

Release(t) ==
    /\ t \in lockHolders
    /\ lockHolders' = lockHolders \ {t}
    /\ UNCHANGED lockQueue

\* The handler of task t returns response r, o being what its last
\* capability call yielded (NoOut when it made none).  seen[t] keeps what the
\* handler met: whether the session was in the registry, the callbacks
\* completed on it so far, the outcome o, the list the handler had built
\* before the call, and the number of capability calls it started.
Return(t, r, o) ==
    /\ pc' = [pc EXCEPT ![t] = "done"]
    /\ resp' = [resp EXCEPT ![t] = r]
    /\ loc' = [loc EXCEPT ![t] = NoLoc]
    /\ seen' = [seen EXCEPT ![t] =
                  [known |-> req[t].sid \in DOMAIN sessions,
                   hist  |-> IF req[t].sid \in SessionIds
                             THEN history[req[t].sid] ELSE NoHist,
                   out   |-> o,
                   list  |-> loc[t].list,
                   calls |-> loc[t].calls]]

Respond(t, r) == Return(t, r, NoOut)

(* ------------------------------- Init --------------------------------- *)

Init ==
    /\ sessions = << >>
    /\ lockQueue = <<>>
    /\ lockHolders = {}
    /\ issued = {}
    /\ logged_in = [c \in SessionIds |-> FALSE]
    /\ store = [c \in SessionIds |-> [r \in RoomIds |-> "none"]]
    /\ pc = [t \in Tasks |-> "idle"]
    /\ req = [t \in Tasks |-> NoReq]
    /\ loc = [t \in Tasks |-> NoLoc]
    /\ resp = [t \in Tasks |-> NoResp]
    /\ nreq = 0
    /\ history = [s \in SessionIds |-> NoHist]
    /\ seen = [t \in Tasks |-> NoSeen]
    /\ reported = [s \in SessionIds |-> "none"]
    /\ started = <<>>

(* --------------------------- the registry ----------------------------- *)

Session(client, error) == [client |-> client, error |-> error]

\* A registry write that keeps only the entry it writes.
insert_dropping_others(map, k, v) == [x \in {k} |-> v]

\* HashMap::insert: the entry for k is added or replaced, the others stay.
insert(map, k, v) ==
    [x \in (DOMAIN map) \cup {k} |-> IF x = k THEN v ELSE map[x]]

\* HashMap::contains_key
contains_key(map, k) == k \in DOMAIN map

(* --------------------------- a new request ---------------------------- *)

\* Uuid::new_v4(): a value it has not returned before.  Which one is of no
\* consequence, so the first unused one is taken.
new_v4 ==
    SessionSeq[CHOOSE i \in 1..Len(SessionSeq) :
                 /\ SessionSeq[i] \notin issued
                 /\ \A j \in 1..(i - 1) : SessionSeq[j] \in issued]

\* The handlers api::config registers, and those main registers on the App
\* it serves (the unauthenticated /status route apart).
config_services ==
    {"login_sso_start", "login_sso_callback", "login_status", "sync", "rooms",
     "room_messages", "send_message", "create_room", "join_room", "leave_room"}

main_services ==
    {"login_sso_start", "login_sso_callback", "login_status", "sync", "rooms",
     "room_messages", "send_message"}

\* actix-web's default answer to a request no registered service matches.
NotFound == [code |-> 404, body |-> [text |-> <<>>]]

\* A request for one of the operations `requested` arrives at an App on
\* which `routed` are registered.  A request no service matches is answered
\* 404 at once.  Otherwise a task starts the handler: login_sso_start and
\* the test helper create_test_session first draw a fresh uuid; every other
\* handler first asks for the registry lock.
Serve(t, requested, routed) ==
    /\ Free(t)
    /\ nreq < MaxRequests
    /\ nreq' = nreq + 1
    /\ \E op \in requested :
         \/ /\ op \notin routed
            /\ \E sid \in SessionIds :
               \E room \in (IF op \in RoomOps THEN RoomIdStrs ELSE {NoRoom}) :
                 req' = [req EXCEPT ![t] =
                           [op |-> op, sid |-> sid, room |-> room,
                            during |-> {u \in Tasks \ {t} : Busy(u)}]]
            /\ pc' = [pc EXCEPT ![t] = "done"]
            /\ resp' = [resp EXCEPT ![t] = NotFound]
            /\ loc' = [loc EXCEPT ![t] = NoLoc]
            /\ UNCHANGED <<issued, lockQueue>>
         \/ /\ op \in routed
            /\ op \in {"login_sso_start", "create_test_session"}
            /\ issued # SessionIds
            /\ LET id == new_v4 IN
                 /\ issued' = issued \cup {id}
                 /\ loc' = [loc EXCEPT ![t] = [NoLoc EXCEPT !.session_id = id,
                                                !.deadline = deadline_of("login_sso_start")]]
            /\ req' = [req EXCEPT ![t] =
                         [op |-> op, sid |-> None, room |-> NoRoom,
                          during |-> {u \in Tasks \ {t} : Busy(u)}]]
            /\ IF op = "login_sso_start"
               THEN /\ pc' = [pc EXCEPT ![t] = "sso_call"]
                    /\ UNCHANGED lockQueue
               ELSE /\ pc' = [pc EXCEPT ![t] = "lock_wait"]
                    /\ lockQueue' = Append(lockQueue, t)
            /\ resp' = [resp EXCEPT ![t] = NoResp]
         \/ /\ op \in routed
            /\ op \notin {"login_sso_start", "create_test_session"}
            /\ \E sid \in SessionIds :
               \E room \in (IF op \in RoomOps THEN RoomIdStrs ELSE {NoRoom}) :
                 req' = [req EXCEPT ![t] =
                           [op |-> op, sid |-> sid, room |-> room,
                            during |-> {u \in Tasks \ {t} : Busy(u)}]]
            /\ pc' = [pc EXCEPT ![t] = "lock_wait"]
            /\ lockQueue' = Append(lockQueue, t)
            /\ loc' = [loc EXCEPT ![t] = NoLoc]
            /\ resp' = [resp EXCEPT ![t] = NoResp]
            /\ UNCHANGED issued
    /\ seen' = [seen EXCEPT ![t] = NoSeen]
    /\ UNCHANGED <<sessions, lockHolders, logged_in, store, history, reported,
                   started>>

\* A request to the App that api::config configures, which is the App the
\* tests build; create_test_session is the tests' way to a session.
Request(t) == Serve(t, Ops, config_services \cup {"create_test_session"})

\* A request for an operation of the HTTP surface to the App main serves.
main_request(t) == Serve(t, config_services, main_services)

(* -------------------------- login_sso_start --------------------------- *)

\* Url::parse, Client::new and get_sso_login_url, all before the lock is
\* requested: each can fail, and the two calls are awaited without a deadline.
StartOutcomes ==
    {[kind |-> k] : k \in {"url_err", "client_err", "sso_err", "ok"}}

login_sso_start_error(o) ==
    CASE o.kind = "url_err"    -> ApiError("MatrixError", "url")
      [] o.kind = "client_err" -> ApiError("Http", "client")
      [] o.kind = "sso_err"    -> ApiError("MatrixError", "sso")

\* A start that registers its session before it knows the SSO URL.
login_sso_start_connect_insert_first(t) ==
    /\ pc[t] = "sso_call"
    /\ sessions' = insert(sessions, loc[t].session_id,
                          Session(loc[t].session_id, None))
    /\ \E o \in StartOutcomes :
         IF o.kind = "ok"
         THEN /\ pc' = [pc EXCEPT ![t] = "lock_wait"]
              /\ lockQueue' = Append(lockQueue, t)
              /\ loc' = [loc EXCEPT ![t].calls = 2]
              /\ UNCHANGED <<resp, seen>>
         ELSE /\ Return(t, error_response(login_sso_start_error(o)), o)
              /\ UNCHANGED lockQueue
    /\ UNCHANGED <<lockHolders, issued, logged_in, store, req, nreq,
                   history, reported, started>>

login_sso_start_connect(t) ==
    /\ pc[t] = "sso_call"
    /\ \E o \in StartOutcomes :
         IF o.kind = "ok"
         THEN /\ pc' = [pc EXCEPT ![t] = "lock_wait"]
              /\ lockQueue' = Append(lockQueue, t)
              /\ loc' = [loc EXCEPT ![t].calls = 2]
              /\ UNCHANGED <<resp, seen>>
         ELSE /\ Return(t, error_response(login_sso_start_error(o)), o)
              /\ UNCHANGED lockQueue
    /\ UNCHANGED <<sessions, lockHolders, issued, logged_in, store, req, nreq,
                   history, reported, started>>

\* sessions.write().await; sessions.insert(...); Ok(json{session_id, sso_url})
login_sso_start_insert(t) ==
    /\ req[t].op = "login_sso_start"
    /\ AcquireAndRelease(t)
    /\ LET id == loc[t].session_id IN
         /\ sessions' = insert(sessions, id, Session(id, None))
         /\ Return(t, OkJson([session_id |-> id, sso_url |-> <<"sso", id>>]),
                   [kind |-> "ok"])
         /\ started' = Append(started, id)
    /\ UNCHANGED <<issued, logged_in, store, req, nreq, history, reported>>

\* tests/mock_matrix.rs create_test_session: a session without a client is
\* written straight into the registry.
create_test_session(t) ==
    /\ req[t].op = "create_test_session"
    /\ AcquireAndRelease(t)
    /\ LET id == loc[t].session_id IN
         /\ sessions' = insert(sessions, id, Session(None, None))
         /\ Respond(t, [code |-> 0, body |-> [session_id |-> id]])
    /\ UNCHANGED <<issued, logged_in, store, req, nreq, history, reported,
                   started>>

(* ------------------------- login_sso_callback ------------------------- *)

\* The write lock is taken first; the session is looked up under it.
login_sso_callback_lookup(t) ==
    /\ req[t].op = "login_sso_callback"
    /\ LET sid == req[t].sid IN
         IF ~contains_key(sessions, sid)
         THEN /\ AcquireAndRelease(t)
              /\ Respond(t, BadRequestText(<<"Invalid session ID: ", sid>>))
         ELSE IF sessions[sid].client = None
         THEN /\ AcquireAndRelease(t)
              /\ Respond(t, BadRequestText(<<"Session doesn't have a client">>))
         ELSE /\ AcquireAndHold(t)
              /\ pc' = [pc EXCEPT ![t] = "cb_call"]
              /\ loc' = [loc EXCEPT ![t].calls = 1,
                                     ![t].deadline = deadline_of(req[t].op)]
              /\ UNCHANGED <<resp, seen>>
    /\ UNCHANGED <<sessions, issued, logged_in, store, req, nreq, history, reported, started>>

\* client.matrix_auth().login_token(token).await: the capability accepts the
\* token, and the client then has a session, or rejects it with an error.
LoginOutcomes == {[kind |-> "ok"]} \cup {[kind |-> "err", text |-> e] : e \in ErrTexts}

login_token(t) ==
    /\ pc[t] = "cb_call"
    /\ \E o \in LoginOutcomes :
         /\ loc' = [loc EXCEPT ![t].out = o]
         /\ logged_in' = IF o.kind = "ok"
                         THEN [logged_in EXCEPT ![sessions[req[t].sid].client] = TRUE]
                         ELSE logged_in
    /\ pc' = [pc EXCEPT ![t] = "cb_finish"]
    /\ UNCHANGED <<sessions, lockQueue, lockHolders, issued, store, req, resp,
                   nreq, history, seen, reported, started>>

\* A callback that stores a fixed text instead of the capability's.
callback_error_fixed_text(o) == IF o.kind = "ok" THEN None ELSE "Login failed"

\* The two arms of the match on the token exchange: the value written to
\* session.error and the response.
callback_error(o) == IF o.kind = "ok" THEN None ELSE o.text

\* A callback that answers 200 whatever the token exchange yielded.
callback_response_always_ok(o) ==
    OkText(<<"Login successful! You can now close this window and return to the application.">>)

callback_response(o) ==
    IF o.kind = "ok"
    THEN OkText(<<"Login successful! You can now close this window and return to the application.">>)
    ELSE BadRequestText(<<"Login failed: ", o.text>>)

\* A callback that writes the outcome to the error of every session.
login_sso_callback_finish_all(t) ==
    /\ pc[t] = "cb_finish"
    /\ LET sid == req[t].sid
           o   == loc[t].out
           h   == history[sid]
       IN /\ sessions' = [s \in DOMAIN sessions |->
                            [sessions[s] EXCEPT !.error = callback_error(o)]]
          /\ Return(t, callback_response(o), o)
          /\ history' = [history EXCEPT ![sid] =
                 [accepted |-> h.accepted \/ o.kind = "ok",
                  rejected |-> h.rejected \/ o.kind = "err",
                  retried  |-> h.retried \/ (o.kind = "ok" /\ h.rejected),
                  last     |-> IF o.kind = "ok" THEN "ok" ELSE o.text]]
    /\ Release(t)
    /\ UNCHANGED <<issued, logged_in, store, req, nreq, reported, started>>

login_sso_callback_finish(t) ==
    /\ pc[t] = "cb_finish"
    /\ LET sid == req[t].sid
           o   == loc[t].out
           h   == history[sid]
       IN /\ sessions' = [sessions EXCEPT ![sid].error = callback_error(o)]
          /\ Return(t, callback_response(o), o)
          /\ history' = [history EXCEPT ![sid] =
                 [accepted |-> h.accepted \/ o.kind = "ok",
                  rejected |-> h.rejected \/ o.kind = "err",
                  retried  |-> h.retried \/ (o.kind = "ok" /\ h.rejected),
                  last     |-> IF o.kind = "ok" THEN "ok" ELSE o.text]]
    /\ Release(t)
    /\ UNCHANGED <<issued, logged_in, store, req, nreq, reported, started>>

(* ---------------------------- login_status ---------------------------- *)

\* A status that looks at the stored error before the authenticated flag.
login_status_response_error_first(sid) ==
    IF ~contains_key(sessions, sid)
    THEN error_response(ApiError("InvalidSession", ""))
    ELSE LET session == sessions[sid] IN
         IF session.client # None
         THEN IF session.error # None
              THEN OkJson([status |-> "error", error |-> session.error])
              ELSE IF logged_in[session.client]
              THEN OkJson([status |-> "logged_in"])
              ELSE OkJson([status |-> "pending"])
         ELSE error_response(ApiError("InvalidSession", ""))

\* A status whose test of the authenticated flag is negated.
login_status_response_negated(sid) ==
    IF ~contains_key(sessions, sid)
    THEN error_response(ApiError("InvalidSession", ""))
    ELSE LET session == sessions[sid] IN
         IF session.client # None
         THEN IF ~logged_in[session.client]
              THEN OkJson([status |-> "logged_in"])
              ELSE IF session.error # None
              THEN OkJson([status |-> "error", error |-> session.error])
              ELSE OkJson([status |-> "pending"])
         ELSE error_response(ApiError("InvalidSession", ""))

login_status_response(sid) ==
    IF ~contains_key(sessions, sid)
    THEN error_response(ApiError("InvalidSession", ""))
    ELSE LET session == sessions[sid] IN
         IF session.client # None
         THEN IF logged_in[session.client]
              THEN OkJson([status |-> "logged_in"])
              ELSE IF session.error # None
              THEN OkJson([status |-> "error", error |-> session.error])
              ELSE OkJson([status |-> "pending"])
         ELSE error_response(ApiError("InvalidSession", ""))

\* A status request that clears the stored error it has reported.
login_status_clearing_error(t) ==
    /\ req[t].op = "login_status"
    /\ AcquireAndRelease(t)
    /\ LET sid == req[t].sid
           r   == login_status_response(sid)
       IN /\ Respond(t, r)
          /\ reported' = IF r.code = 200
                         THEN [reported EXCEPT ![sid] = r.body.status]
                         ELSE reported
          /\ sessions' = IF contains_key(sessions, sid)
                         THEN [sessions EXCEPT ![sid].error = None]
                         ELSE sessions
    /\ UNCHANGED <<issued, logged_in, store, req, nreq, history, started>>

login_status(t) ==
    /\ req[t].op = "login_status"
    /\ AcquireAndRelease(t)
    /\ LET sid == req[t].sid
           r   == login_status_response(sid)
       IN /\ Respond(t, r)
          /\ reported' = IF r.code = 200
                         THEN [reported EXCEPT ![sid] = r.body.status]
                         ELSE reported
    /\ UNCHANGED <<sessions, issued, logged_in, store, req, nreq, history,
                   started>>

(* ------------------- the handlers behind the read lock ----------------- *)

IsErr(r) == "err" \in DOMAIN r

\* A preamble that also refuses a client that has not logged in.
client_of_logged_in(sid, missing) ==
    IF ~contains_key(sessions, sid) THEN [err |-> ApiError(missing, "")]
    ELSE IF sessions[sid].client = None THEN [err |-> ApiError("NotLoggedIn", "")]
    ELSE IF ~logged_in[sessions[sid].client] THEN [err |-> ApiError("NotLoggedIn", "")]
    ELSE [client |-> sessions[sid].client]

\* sessions.get(&session_id).ok_or(missing)?
\* session.client.as_ref().ok_or(ApiError::NotLoggedIn)?
client_of(sid, missing) ==
    IF ~contains_key(sessions, sid) THEN [err |-> ApiError(missing, "")]
    ELSE IF sessions[sid].client = None THEN [err |-> ApiError("NotLoggedIn", "")]
    ELSE [client |-> sessions[sid].client]

\* OwnedRoomId::try_from(room_id_str): a room id starts with the sigil '!'.
is_room_id(str) == str[1] = "!"

\* client.get_room(&room_id): any room of the store, whatever its state.
get_room(c, r) == store[c][r] # "none"

\* client.joined_rooms(): the joined rooms of the store, in the SDK's order.
joined_rooms(c) == SelectSeq(RoomSeq, LAMBDA r : store[c][r] = "joined")

\* What one awaited capability call wrapped in tokio::time::timeout yields:
\* Ok(Ok(v)), Ok(Err(e)), or Err(Elapsed) when the deadline fires first.
Outcomes(vals) ==
    {[kind |-> "ok", val |-> v] : v \in vals}
      \cup {[kind |-> "err", text |-> e] : e \in CallErrTexts}
      \cup {[kind |-> "timeout"]}

\* The handler holds the read guard: it returns at once with the error of
\* its preamble, or it starts the capability call and keeps the guard.
Begin(t, pre, l) ==
    IF IsErr(pre)
    THEN /\ AcquireAndRelease(t)
         /\ Respond(t, error_response(pre.err))
    ELSE /\ AcquireAndHold(t)
         /\ pc' = [pc EXCEPT ![t] = "call"]
         /\ loc' = [loc EXCEPT ![t] =
                      [l EXCEPT !.calls = 1,
                                !.deadline = deadline_of(req[t].op)]]
         /\ UNCHANGED <<resp, seen>>

\* A return path on which the guard is not dropped.
Finish_keeping_guard(t, r, o) ==
    Return(t, r, o) /\ UNCHANGED <<lockHolders, lockQueue>>

\* The handler returns r after outcome o; its guard is dropped with it.
Finish(t, r, o) == Return(t, r, o) /\ Release(t)

(* -------------------------------- sync -------------------------------- *)

\* The fallback list is built from joined_rooms() before sync_once is called.
fallback_room_infos(c) ==
    [i \in 1..Len(joined_rooms(c)) |-> [room_id |-> joined_rooms(c)[i]]]

sync_begin(t) ==
    /\ req[t].op = "sync"
    /\ LET pre == client_of(req[t].sid, "InvalidSession") IN
         Begin(t, pre, IF IsErr(pre) THEN NoLoc
                       ELSE [NoLoc EXCEPT !.client = pre.client,
                                          !.list = fallback_room_infos(pre.client),
                                          !.long_poll = SyncLongPollSecs])
    /\ UNCHANGED <<sessions, issued, logged_in, store, req, nreq, history, reported, started>>

\* A sync response: the joined rooms it lists and its next_batch token.
SyncResponses == [join : SyncJoins, next_batch : BatchTokens]

rooms_data(join) ==
    LET l == SelectSeq(RoomSeq, LAMBDA r : r \in join)
    IN [i \in 1..Len(l) |-> [room_id |-> l[i]]]

\* A sync that propagates a missed deadline as an error.
sync_response_strict_timeout(o, fallback) ==
    CASE o.kind = "ok" ->
           OkJson([rooms |-> rooms_data(o.val.join),
                   next_batch |-> o.val.next_batch])
      [] o.kind = "err" ->
           OkJson([rooms |-> fallback,
                   next_batch |-> "failure_sync_token",
                   error |-> <<"Sync warning (continuing with basic room list): ", o.text>>])
      [] o.kind = "timeout" ->
           error_response(ApiError("MatrixError", "Sync timed out"))

\* A sync that reports a missed deadline with the token of a failed sync.
sync_response_one_sentinel(o, fallback) ==
    CASE o.kind = "ok" ->
           OkJson([rooms |-> rooms_data(o.val.join),
                   next_batch |-> o.val.next_batch])
      [] o.kind = "err" ->
           OkJson([rooms |-> fallback,
                   next_batch |-> "failure_sync_token",
                   error |-> <<"Sync warning (continuing with basic room list): ", o.text>>])
      [] o.kind = "timeout" ->
           OkJson([rooms |-> fallback,
                   next_batch |-> "failure_sync_token",
                   error |-> <<"Sync timed out (continuing with basic room list)">>])

\* The three arms of the match on sync_result.
sync_response(o, fallback) ==
    CASE o.kind = "ok" ->
           OkJson([rooms |-> rooms_data(o.val.join),
                   next_batch |-> o.val.next_batch])
      [] o.kind = "err" ->
           OkJson([rooms |-> fallback,
                   next_batch |-> "failure_sync_token",
                   error |-> <<"Sync warning (continuing with basic room list): ", o.text>>])
      [] o.kind = "timeout" ->
           OkJson([rooms |-> fallback,
                   next_batch |-> "timeout_sync_token",
                   error |-> <<"Sync timed out (continuing with basic room list)">>])

sync_complete(t) ==
    /\ pc[t] = "call"
    /\ req[t].op = "sync"
    /\ \E o \in Outcomes(SyncResponses) :
         /\ Finish(t, sync_response(o, loc[t].list), o)
         /\ store' = IF o.kind = "ok"
                     THEN [store EXCEPT ![loc[t].client] =
                             [r \in RoomIds |-> IF r \in o.val.join THEN "joined"
                                                ELSE store[loc[t].client][r]]]
                     ELSE store
    /\ UNCHANGED <<sessions, issued, logged_in, req, nreq, history, reported, started>>

(* -------------------------------- rooms ------------------------------- *)

rooms_begin(t) ==
    /\ req[t].op = "rooms"
    /\ LET pre == client_of(req[t].sid, "InvalidSession") IN
         IF IsErr(pre)
         THEN /\ AcquireAndRelease(t)
              /\ Respond(t, error_response(pre.err))
         ELSE IF joined_rooms(pre.client) = <<>>
         THEN /\ AcquireAndRelease(t)
              /\ Respond(t, OkJson([array |-> <<>>]))
         ELSE /\ AcquireAndHold(t)
              /\ pc' = [pc EXCEPT ![t] = "names"]
              /\ loc' = [loc EXCEPT ![t] =
                           [NoLoc EXCEPT !.client = pre.client,
                                         !.list = joined_rooms(pre.client),
                                         !.calls = 1,
                                         !.deadline = deadline_of(req[t].op)]]
              /\ UNCHANGED <<resp, seen>>
    /\ UNCHANGED <<sessions, issued, logged_in, store, req, nreq, history, reported, started>>

\* A match that leaves the name empty when the fetch failed.
display_name_empty_on_failure(o, room) ==
    IF o.kind = "ok" THEN <<"name of", room>> ELSE <<>>

\* The match on display_name_result.
display_name(o, room) == IF o.kind = "ok" THEN <<"name of", room>> ELSE <<"Unknown">>

\* The arm of the outer match taken when the overall deadline fires.
rooms_timeout_response == OkJson([array |-> <<>>])

\* One round of the loop over the joined rooms: room.display_name() is
\* awaited under its own deadline while the overall deadline keeps running.
\* A fetch that answers, answers at once; one that does not uses up its
\* deadline.  When both deadlines fall due together either can win.
rooms_display_name(t) ==
    /\ pc[t] = "names"
    /\ \E o \in Outcomes({"name"}) :
         LET room  == Head(loc[t].list)
             spent == loc[t].elapsed +
                        (IF o.kind = "timeout" THEN DisplayNameDeadlineSecs ELSE 0)
             infos == Append(loc[t].infos,
                             [room_id |-> room, name |-> display_name(o, room)])
         IN \/ /\ o.kind = "timeout"
               /\ spent >= RoomsDeadlineSecs
               /\ Finish(t, rooms_timeout_response, [kind |-> "timeout"])
            \/ /\ spent <= RoomsDeadlineSecs
               /\ IF Tail(loc[t].list) = <<>>
                  THEN Finish(t, OkJson([array |-> infos]), [kind |-> "ok", val |-> infos])
                  ELSE /\ loc' = [loc EXCEPT ![t].list = Tail(loc[t].list),
                                             ![t].infos = infos,
                                             ![t].elapsed = spent,
                                             ![t].calls = loc[t].calls + 1]
                       /\ UNCHANGED <<pc, resp, seen, lockQueue, lockHolders>>
    /\ UNCHANGED <<sessions, issued, logged_in, store, req, nreq, history, reported, started>>

(* ---------------------------- room_messages --------------------------- *)

\* A preamble that parses the room id before it looks at the session.
room_of_parse_first(sid, str, missing, unparsable, unknown) ==
    IF ~is_room_id(str) THEN [err |-> unparsable]
    ELSE LET c == client_of(sid, missing) IN
         IF IsErr(c) THEN c
         ELSE IF ~get_room(c.client, str) THEN [err |-> unknown]
         ELSE c

\* The preamble shared by room_messages, send_message and leave_room: the
\* client, the parsed room id and the room, each with the error its failure
\* maps to.
room_of(sid, str, missing, unparsable, unknown) ==
    LET c == client_of(sid, missing) IN
    IF IsErr(c) THEN c
    ELSE IF ~is_room_id(str) THEN [err |-> unparsable]
    ELSE IF ~get_room(c.client, str) THEN [err |-> unknown]
    ELSE c

room_messages_begin(t) ==
    /\ req[t].op = "room_messages"
    /\ LET pre == room_of(req[t].sid, req[t].room, "InvalidSession",
                          ApiError("MatrixError", "Invalid room ID format"),
                          ApiError("MatrixError", "Room not found"))
       IN Begin(t, pre, IF IsErr(pre) THEN NoLoc
                        ELSE [NoLoc EXCEPT !.client = pre.client])
    /\ UNCHANGED <<sessions, issued, logged_in, store, req, nreq, history, reported, started>>

\* The chunks room.messages(options) can return, already formatted.
MessageChunks ==
    {<<>>, <<[sender |-> "@u:hs", body |-> "hi", event_id |-> "$ev1", timestamp |-> 1]>>}

\* The three arms of the match on messages_response.
room_messages_response(o) ==
    CASE o.kind = "ok"      -> OkJson([array |-> o.val])
      [] o.kind = "err"     -> error_response(ApiError("MatrixSdk", o.text))
      [] o.kind = "timeout" ->
           error_response(ApiError("MatrixError", "Request for messages timed out"))

room_messages_complete(t) ==
    /\ pc[t] = "call"
    /\ req[t].op = "room_messages"
    /\ \E o \in Outcomes(MessageChunks) : Finish(t, room_messages_response(o), o)
    /\ UNCHANGED <<sessions, issued, logged_in, store, req, nreq, history, reported, started>>

(* ---------------------------- send_message ---------------------------- *)

send_message_begin(t) ==
    /\ req[t].op = "send_message"
    /\ LET pre == room_of(req[t].sid, req[t].room, "InvalidSession",
                          ApiError("MatrixError", "Invalid room ID format"),
                          ApiError("MatrixError", "Room not found"))
       IN Begin(t, pre, IF IsErr(pre) THEN NoLoc
                        ELSE [NoLoc EXCEPT !.client = pre.client])
    /\ UNCHANGED <<sessions, issued, logged_in, store, req, nreq, history, reported, started>>

\* A send that answers a missed deadline with a made-up success.
send_message_response_fallback(o) ==
    CASE o.kind = "ok"      -> OkJson([status |-> "success", event_id |-> o.val])
      [] o.kind = "err"     ->
           error_response(ApiError("MatrixError", <<"Failed to send message: ", o.text>>))
      [] o.kind = "timeout" -> OkJson([status |-> "success", event_id |-> "$pending"])

\* The three arms of the match on send_result.
send_message_response(o) ==
    CASE o.kind = "ok"      -> OkJson([status |-> "success", event_id |-> o.val])
      [] o.kind = "err"     ->
           error_response(ApiError("MatrixError", <<"Failed to send message: ", o.text>>))
      [] o.kind = "timeout" ->
           error_response(ApiError("MatrixError", "Request to send message timed out"))

\* A send that calls room.send a second time when the first call failed or
\* missed its deadline.
send_message_complete_retrying(t) ==
    /\ pc[t] = "call"
    /\ req[t].op = "send_message"
    /\ \E o \in Outcomes(EventIds) :
         IF o.kind # "ok" /\ loc[t].calls < 2
         THEN /\ loc' = [loc EXCEPT ![t].calls = @ + 1]
              /\ UNCHANGED <<pc, resp, seen, lockQueue, lockHolders>>
         ELSE Finish(t, send_message_response(o), o)
    /\ UNCHANGED <<sessions, issued, logged_in, store, req, nreq, history, reported, started>>

\* A send on which the answer of room.send still acts after the deadline
\* has fired and the timeout has been reported.
send_message_complete_after_deadline(t) ==
    /\ req[t].op = "send_message"
    /\ \/ /\ pc[t] = "call"
          /\ \E o \in Outcomes(EventIds) : Finish(t, send_message_response(o), o)
       \/ /\ pc[t] = "done"
          /\ seen[t].out.kind = "timeout"
          /\ resp[t].code # 200
          /\ \E e \in EventIds :
                resp' = [resp EXCEPT ![t] =
                           send_message_response([kind |-> "ok", val |-> e])]
          /\ UNCHANGED <<pc, loc, seen, lockQueue, lockHolders>>
    /\ UNCHANGED <<sessions, issued, logged_in, store, req, nreq, history, reported, started>>

send_message_complete(t) ==
    /\ pc[t] = "call"
    /\ req[t].op = "send_message"
    /\ \E o \in Outcomes(EventIds) : Finish(t, send_message_response(o), o)
    /\ UNCHANGED <<sessions, issued, logged_in, store, req, nreq, history, reported, started>>

(* ----------------------------- create_room ---------------------------- *)

create_room_begin(t) ==
    /\ req[t].op = "create_room"
    /\ LET pre == client_of(req[t].sid, "SessionNotFound") IN
         Begin(t, pre, IF IsErr(pre) THEN NoLoc
                       ELSE [NoLoc EXCEPT !.client = pre.client])
    /\ UNCHANGED <<sessions, issued, logged_in, store, req, nreq, history, reported, started>>

\* The three arms of the match on create_result.
create_room_response(o) ==
    CASE o.kind = "ok"      -> OkJson([room_id |-> o.val])
      [] o.kind = "err"     ->
           error_response(ApiError("MatrixError", <<"Failed to create room: ", o.text>>))
      [] o.kind = "timeout" ->
           error_response(ApiError("MatrixError", "Request to create room timed out"))

\* The SDK records a created or joined room as joined, a left room as left.
store_after(o, c, r, state) ==
    IF o.kind = "ok" THEN [store EXCEPT ![c][r] = state] ELSE store

create_room_complete(t) ==
    /\ pc[t] = "call"
    /\ req[t].op = "create_room"
    /\ \E o \in Outcomes(CreatedRoomIds) :
         /\ Finish(t, create_room_response(o), o)
         /\ store' = IF o.kind = "ok"
                     THEN store_after(o, loc[t].client, o.val, "joined")
                     ELSE store
    /\ UNCHANGED <<sessions, issued, logged_in, req, nreq, history, reported, started>>

(* ------------------------------ join_room ----------------------------- *)

join_room_begin(t) ==
    /\ req[t].op = "join_room"
    /\ LET c   == client_of(req[t].sid, "SessionNotFound")
           pre == IF IsErr(c) THEN c
                  ELSE IF ~is_room_id(req[t].room)
                  THEN [err |-> ApiError("InvalidRoomId", "")]
                  ELSE c
       IN Begin(t, pre, IF IsErr(pre) THEN NoLoc
                        ELSE [NoLoc EXCEPT !.client = pre.client])
    /\ UNCHANGED <<sessions, issued, logged_in, store, req, nreq, history, reported, started>>

\* The three arms of the match on join_result.
join_room_response(o, room_id_str) ==
    CASE o.kind = "ok"      -> OkJson([status |-> "success", room_id |-> room_id_str])
      [] o.kind = "err"     ->
           error_response(ApiError("MatrixError", <<"Failed to join room: ", o.text>>))
      [] o.kind = "timeout" ->
           error_response(ApiError("MatrixError", "Request to join room timed out"))

join_room_complete(t) ==
    /\ pc[t] = "call"
    /\ req[t].op = "join_room"
    /\ \E o \in Outcomes({"joined"}) :
         /\ Finish(t, join_room_response(o, req[t].room), o)
         /\ store' = store_after(o, loc[t].client, req[t].room, "joined")
    /\ UNCHANGED <<sessions, issued, logged_in, req, nreq, history, reported, started>>

(* ----------------------------- leave_room ----------------------------- *)

leave_room_begin(t) ==
    /\ req[t].op = "leave_room"
    /\ LET pre == room_of(req[t].sid, req[t].room, "SessionNotFound",
                          ApiError("InvalidRoomId", ""),
                          ApiError("RoomNotFound", ""))
       IN Begin(t, pre, IF IsErr(pre) THEN NoLoc
                        ELSE [NoLoc EXCEPT !.client = pre.client])
    /\ UNCHANGED <<sessions, issued, logged_in, store, req, nreq, history, reported, started>>

\* A leave that reports a missed deadline as it reports a failed call.
leave_room_response_one_failure(o, room_id_str) ==
    CASE o.kind = "ok"      -> OkJson([status |-> "success", room_id |-> room_id_str])
      [] o.kind = "err"     ->
           error_response(ApiError("MatrixError", <<"Failed to leave room: ", o.text>>))
      [] o.kind = "timeout" ->
           error_response(ApiError("MatrixError", "Failed to leave room: "))

\* The three arms of the match on leave_result.
leave_room_response(o, room_id_str) ==
    CASE o.kind = "ok"      -> OkJson([status |-> "success", room_id |-> room_id_str])
      [] o.kind = "err"     ->
           error_response(ApiError("MatrixError", <<"Failed to leave room: ", o.text>>))
      [] o.kind = "timeout" ->
           error_response(ApiError("MatrixError", "Request to leave room timed out"))

leave_room_complete(t) ==
    /\ pc[t] = "call"
    /\ req[t].op = "leave_room"
    /\ \E o \in Outcomes({"left"}) :
         /\ Finish(t, leave_room_response(o, req[t].room), o)
         /\ store' = store_after(o, loc[t].client, req[t].room, "left")
    /\ UNCHANGED <<sessions, issued, logged_in, req, nreq, history, reported, started>>

(* ---------------------------- specification --------------------------- *)

Next ==
    \/ \E t \in Tasks : Request(t)
    \/ \E t \in Tasks : login_sso_start_connect(t)
    \/ \E t \in Tasks : login_sso_start_insert(t)
    \/ \E t \in Tasks : create_test_session(t)
    \/ \E t \in Tasks : login_sso_callback_lookup(t)
    \/ \E t \in Tasks : login_token(t)
    \/ \E t \in Tasks : login_sso_callback_finish(t)
    \/ \E t \in Tasks : login_status(t)
    \/ \E t \in Tasks : sync_begin(t)
    \/ \E t \in Tasks : sync_complete(t)
    \/ \E t \in Tasks : rooms_begin(t)
    \/ \E t \in Tasks : rooms_display_name(t)
    \/ \E t \in Tasks : room_messages_begin(t)
    \/ \E t \in Tasks : room_messages_complete(t)
    \/ \E t \in Tasks : send_message_begin(t)
    \/ \E t \in Tasks : send_message_complete(t)
    \/ \E t \in Tasks : create_room_begin(t)
    \/ \E t \in Tasks : create_room_complete(t)
    \/ \E t \in Tasks : join_room_begin(t)
    \/ \E t \in Tasks : join_room_complete(t)
    \/ \E t \in Tasks : leave_room_begin(t)
    \/ \E t \in Tasks : leave_room_complete(t)

Spec == Init /\ [][Next]_vars

\* The process main starts: the same state, the services main registers.
MainNext ==
    \/ \E t \in Tasks : main_request(t)
    \/ \E t \in Tasks : login_sso_start_connect(t)
    \/ \E t \in Tasks : login_sso_start_insert(t)
    \/ \E t \in Tasks : login_sso_callback_lookup(t)
    \/ \E t \in Tasks : login_token(t)
    \/ \E t \in Tasks : login_sso_callback_finish(t)
    \/ \E t \in Tasks : login_status(t)
    \/ \E t \in Tasks : sync_begin(t)
    \/ \E t \in Tasks : sync_complete(t)
    \/ \E t \in Tasks : rooms_begin(t)
    \/ \E t \in Tasks : rooms_display_name(t)
    \/ \E t \in Tasks : room_messages_begin(t)
    \/ \E t \in Tasks : room_messages_complete(t)
    \/ \E t \in Tasks : send_message_begin(t)
    \/ \E t \in Tasks : send_message_complete(t)

MainSpec == Init /\ [][MainNext]_vars

(* ------------------------------- claims ------------------------------- *)

StrictWrites == {"send_message", "create_room", "join_room", "leave_room"}
SessionOps == Ops \ {"login_sso_start", "create_test_session"}
Done(t, op) == pc[t] = "done" /\ req[t].op = op
Success(r) == r.code \in 200..299
Degraded(t) == seen[t].out.kind \in {"err", "timeout"}

\* C1: a strict write (send, create, join, leave) on an existing session
\* whose capability call failed or missed its deadline answers with a
\* non-success status and no event_id, room_id or status field; a success
\* response comes only from a capability success and carries its value.
C1_StrictWriteNeverSubstitutes ==
    \A t \in Tasks :
       (pc[t] = "done" /\ req[t].op \in StrictWrites /\ seen[t].known) =>
          /\ Degraded(t) =>
               (/\ ~Success(resp[t])
                /\ DOMAIN resp[t].body \cap {"event_id", "room_id", "status"} = {})
          /\ Success(resp[t]) =>
               (/\ seen[t].out.kind = "ok"
                /\ req[t].op = "send_message" =>
                      resp[t].body.event_id = seen[t].out.val
                /\ req[t].op = "create_room" =>
                      resp[t].body.room_id = seen[t].out.val
                /\ req[t].op \in {"join_room", "leave_room"} =>
                      resp[t].body.room_id = req[t].room)

\* A send whose deadline elapsed was answered with a server error.
C1_Witness ==
    \E t \in Tasks :
       /\ Done(t, "send_message")
       /\ seen[t].out.kind = "timeout"
       /\ resp[t].code = 500

\* C2: a sync whose capability call failed or missed its deadline answers
\* 200 with the rooms listed before the call (possibly none), a non-empty
\* error field and a non-empty next_batch.
C2_SyncDegradesToSuccess ==
    \A t \in Tasks :
       (Done(t, "sync") /\ Degraded(t)) =>
          /\ resp[t].code = 200
          /\ DOMAIN resp[t].body = {"rooms", "next_batch", "error"}
          /\ resp[t].body.rooms = seen[t].list
          /\ resp[t].body.error # <<>>
          /\ resp[t].body.error[1] # ""
          /\ resp[t].body.next_batch # ""

\* A sync that missed its deadline answered with a non-empty fallback list.
C2_Witness ==
    \E t \in Tasks :
       /\ Done(t, "sync")
       /\ seen[t].out.kind = "timeout"
       /\ resp[t].code = 200
       /\ resp[t].body.rooms # <<>>

\* C3: a message listing for an existing session and a known room whose
\* capability call failed or missed its deadline answers with an HTTP
\* success that carries a warning.
C3_MessagesDegradeToSuccess ==
    \A t \in Tasks :
       (Done(t, "room_messages") /\ Degraded(t)) =>
          /\ Success(resp[t])
          /\ "error" \in DOMAIN resp[t].body

\* C4: a rooms request whose overall deadline elapsed answers with an HTTP
\* success that carries a room list together with a warning.
C4_RoomsTimeoutCarriesWarning ==
    \A t \in Tasks :
       (Done(t, "rooms") /\ seen[t].out.kind = "timeout") =>
          /\ Success(resp[t])
          /\ "array" \in DOMAIN resp[t].body
          /\ "error" \in DOMAIN resp[t].body

\* C5: a session-scoped handler that finds its session id missing from the
\* registry returns at that point with a 4xx response, has started no
\* capability call and leaves the registry as it was.
C5_UnknownSessionIsClientError ==
    [][\A t \in Tasks :
         (/\ pc[t] = "lock_wait"
          /\ pc'[t] # "lock_wait"
          /\ req[t].op \in SessionOps
          /\ req[t].sid \notin DOMAIN sessions) =>
            (/\ pc'[t] = "done"
             /\ resp'[t].code \in 400..499
             /\ seen'[t].calls = 0
             /\ sessions' = sessions)]_vars

\* C6: login_status on a registered session on which no callback has
\* completed answers 200 with status "pending".
C6_PendingBeforeAnyCallback ==
    \A t \in Tasks :
       (Done(t, "login_status") /\ seen[t].known /\ seen[t].hist.last = None) =>
          /\ resp[t].code = 200
          /\ resp[t].body = [status |-> "pending"]

\* C7: login_status on a session on which some callback has completed with
\* an accepted token answers "logged_in".
C7_LoggedInAfterAcceptedCallback ==
    \A t \in Tasks :
       (Done(t, "login_status") /\ seen[t].hist.accepted) =>
          resp[t] = OkJson([status |-> "logged_in"])

\* A status request served after an accepted callback.
C7_Witness ==
    \E t \in Tasks :
       /\ Done(t, "login_status")
       /\ seen[t].hist.accepted
       /\ resp[t].body = [status |-> "logged_in"]

\* C8: while no callback has been accepted and the latest completed callback
\* was rejected, login_status answers "error" with the capability's text; a
\* callback the capability accepts answers 200; and once a callback has been
\* accepted after a rejection, login_status answers "logged_in".
C8_RejectedThenRetry ==
    \A t \in Tasks :
       /\ (/\ Done(t, "login_status")
           /\ ~seen[t].hist.accepted
           /\ seen[t].hist.last \in ErrTexts) =>
             resp[t] = OkJson([status |-> "error", error |-> seen[t].hist.last])
       /\ (Done(t, "login_sso_callback") /\ seen[t].out.kind = "ok") =>
             resp[t].code = 200
       /\ (Done(t, "login_status") /\ seen[t].hist.retried) =>
             resp[t] = OkJson([status |-> "logged_in"])

\* A status request served after a rejected and then an accepted callback.
C8_Witness ==
    \E t \in Tasks :
       /\ Done(t, "login_status")
       /\ seen[t].hist.retried
       /\ resp[t].body = [status |-> "logged_in"]

\* C9: the status login_status reports for a session moves only from
\* pending to logged_in or error, and from error to error or logged_in;
\* after logged_in it never changes.
AllowedMove(a, b) ==
    \/ a = b
    \/ a = "none"
    \/ a = "pending" /\ b \in {"logged_in", "error"}
    \/ a = "error" /\ b = "logged_in"

C10_StartsDistinctAndKept ==
    \A i \in 1..Len(started) :
       /\ started[i] \in DOMAIN sessions
       /\ sessions[started[i]].client # None
       /\ \A j \in 1..Len(started) :
            i # j => /\ started[i] # started[j]
                     /\ sessions[started[i]].client # sessions[started[j]].client

\* Two login_sso_start calls that overlapped have both returned.
C10_Witness ==
    \E t, u \in Tasks :
       /\ t # u
       /\ Done(t, "login_sso_start") /\ resp[t].code = 200
       /\ Done(u, "login_sso_start") /\ resp[u].code = 200
       /\ t \in req[u].during
       /\ Len(started) = 2

\* C11: the registry only grows: a step of any operation keeps every session
\* id that is in the registry and leaves that session's client handle as it
\* was, so a later lookup of the id finds it.
C11_RegistryOnlyGrows ==
    [][\A s \in DOMAIN sessions :
          /\ s \in DOMAIN sessions'
          /\ sessions'[s].client = sessions[s].client]_vars

\* Both sessions are in the registry, a callback has written to one of them,
\* and a later status lookup of that one found it.
C11_Witness ==
    \E t \in Tasks :
       /\ Done(t, "login_status")
       /\ seen[t].known
       /\ seen[t].hist.last # None
       /\ DOMAIN sessions = SessionIds
       /\ resp[t].code = 200

\* C12: login_sso_callback never holds the registry's write lock while its
\* token exchange is in flight.
C12_NoWriteLockDuringTokenExchange ==
    \A t \in Tasks : pc[t] = "cb_call" => t \notin lockHolders

\* C13: sync, rooms, room_messages, send_message, create_room, join_room and
\* leave_room have released their read guard before their capability call
\* starts: no such call is in flight while its handler holds the guard.
C13_NoReadLockDuringCapabilityCall ==
    \A t \in Tasks : pc[t] \in {"call", "names"} => t \notin lockHolders

\* C14: while a login_sso_callback for one session is in progress, its
\* token exchange included, a read for another session that is first in
\* line for the registry is admitted.
C14_CallbackDoesNotBlockOtherReaders ==
    \A t, u \in Tasks :
       ( /\ pc[u] \in {"cb_call", "cb_finish"}
         /\ pc[t] = "lock_wait"
         /\ req[t].op \in ReadOps
         /\ req[t].sid # req[u].sid
         /\ Head(lockQueue) = t )
       => CanAcquire(t)

\* C15: while a sync, rooms, room_messages or write request for one session
\* is awaiting the capability, a login_sso_start or a login_sso_callback for
\* another session that is first in line for the registry is admitted.
C15_OtherSessionsDoNotWait ==
    \A t, u \in Tasks :
       ( /\ pc[u] \in {"call", "names"}
         /\ pc[t] = "lock_wait"
         /\ req[t].op \in {"login_sso_start", "login_sso_callback"}
         /\ req[t].sid # req[u].sid
         /\ Head(lockQueue) = t )
       => CanAcquire(t)

\* The steps of task t that the runtime takes without the capability's
\* leave: a grant of the registry lock, a step that follows an answer
\* already received, and the completion of a call that has a deadline
\* (its timer fires if nothing else ends it).
TimedStep(t) ==
    \/ login_sso_start_insert(t)
    \/ create_test_session(t)
    \/ login_sso_callback_lookup(t)
    \/ login_sso_callback_finish(t)
    \/ login_status(t)
    \/ sync_begin(t)
    \/ sync_complete(t)
    \/ rooms_begin(t)
    \/ rooms_display_name(t)
    \/ room_messages_begin(t)
    \/ room_messages_complete(t)
    \/ send_message_begin(t)
    \/ send_message_complete(t)
    \/ create_room_begin(t)
    \/ create_room_complete(t)
    \/ join_room_begin(t)
    \/ join_room_complete(t)
    \/ leave_room_begin(t)
    \/ leave_room_complete(t)

\* Timers fire and runnable tasks are polled; the capability is under no
\* obligation to answer (login_sso_start_connect and login_token are the
\* steps that wait for it with no timer).
LiveSpec == Spec /\ \A t \in Tasks : WF_vars(TimedStep(t))

\* C16: every capability call is wrapped in a deadline, so every request
\* that has begun eventually returns a response, whether or not the
\* capability answers.
C16_EveryRequestReturns ==
    \A t \in Tasks : Busy(t) ~> (pc[t] = "done")

\* C17: the deadline the sync handler puts around sync_once is strictly
\* larger, in seconds, than the long-poll timeout it passes in the sync
\* settings of that call.
C17_SyncDeadlineExceedsLongPoll ==
    \A t \in Tasks :
       (pc[t] = "call" /\ req[t].op = "sync") =>
          /\ loc[t].long_poll > 0
          /\ loc[t].deadline > loc[t].long_poll

\* A sync_once call is outstanding.
C17_Witness ==
    \E t \in Tasks :
       /\ pc[t] = "call" /\ req[t].op = "sync"
       /\ t \in lockHolders
       /\ loc[t].long_poll = SyncLongPollSecs

DegradableReads == {"sync", "rooms", "room_messages"}
WriteCall(t) == pc[t] = "call" /\ req[t].op \in StrictWrites

\* C18 as stated: the deadline around the capability call of every strict
\* write (send, create, join, leave) is at most 9 seconds, and the deadline
\* of every degradable read (sync, rooms, messages) is strictly larger.
C18_WriteDeadlinesSingleDigit ==
    \A t \in Tasks :
       WriteCall(t) =>
          /\ loc[t].deadline \in 1..9
          /\ \A r \in DegradableReads : deadline_of(r) > loc[t].deadline

\* C18 amended: the deadline around the capability call of every strict
\* write is at most 10 seconds (5 for send, 10 for create, join and leave),
\* and the deadline of every degradable read is strictly larger.
C18_WriteDeadlinesBelowReads ==
    \A t \in Tasks :
       WriteCall(t) =>
          /\ loc[t].deadline \in 1..10
          /\ \A r \in DegradableReads : deadline_of(r) > loc[t].deadline

\* A create_room call is outstanding under its ten-second deadline.
C18_Witness ==
    \E t \in Tasks :
       /\ WriteCall(t)
       /\ req[t].op = "create_room"
       /\ loc[t].deadline = CreateDeadlineSecs

\* A finished sync on a session that was in the registry when the handler
\* looked it up and that has a client.
SyncWithClient(t) ==
    /\ Done(t, "sync")
    /\ seen[t].known
    /\ sessions[req[t].sid].client # None

\* C19: every sync response on an existing session with a client carries a
\* next_batch token that tells the outcome: "timeout_sync_token" after a
\* missed deadline, "failure_sync_token" after a capability error (so the
\* tokens of the two differ), and the capability's own next_batch after a
\* successful sync.
C19_NextBatchTellsOutcome ==
    \A t \in Tasks :
       SyncWithClient(t) =>
          /\ resp[t].code = 200
          /\ "next_batch" \in DOMAIN resp[t].body
          /\ seen[t].out.kind \in {"ok", "err", "timeout"}
          /\ seen[t].out.kind = "timeout" =>
                resp[t].body.next_batch = "timeout_sync_token"
          /\ seen[t].out.kind = "err" =>
                resp[t].body.next_batch = "failure_sync_token"
          /\ seen[t].out.kind = "ok" =>
                resp[t].body.next_batch = seen[t].out.val.next_batch
          /\ \A u \in Tasks :
                ( /\ SyncWithClient(u)
                  /\ seen[t].out.kind = "timeout"
                  /\ seen[u].out.kind = "err" )
                => resp[t].body.next_batch # resp[u].body.next_batch

\* One sync has missed its deadline and another has met a capability error.
C19_Witness ==
    \E t, u \in Tasks :
       /\ SyncWithClient(t) /\ seen[t].out.kind = "timeout"
       /\ SyncWithClient(u) /\ seen[u].out.kind = "err"
       /\ "next_batch" \in DOMAIN resp[t].body
       /\ "next_batch" \in DOMAIN resp[u].body

\* C20: no write is retried: a send, create, join or leave request has
\* started its capability operation at most once at any moment, and exactly
\* once when it has returned after a success, an upstream error or a
\* missed deadline.
C20_WritesCalledAtMostOnce ==
    \A t \in Tasks :
       req[t].op \in StrictWrites =>
          /\ loc[t].calls <= 1
          /\ pc[t] = "done" =>
                /\ seen[t].calls <= 1
                /\ seen[t].out.kind \in {"ok", "err", "timeout"} =>
                      seen[t].calls = 1

\* A send whose only call failed upstream has returned its error.
C20_Witness ==
    \E t \in Tasks :
       /\ Done(t, "send_message")
       /\ seen[t].out.kind = "err"
       /\ seen[t].calls = 1
       /\ resp[t].code = 500

\* C21: the fallback list of a degraded sync is fetched when, and only
\* after, sync_once has failed or missed its deadline: the rooms in the
\* degraded response are the rooms the client knows as joined at the moment
\* the handler learns of the failure.
C21_FallbackFetchedAfterFailure ==
    [][\A t \in Tasks :
          ( /\ pc[t] = "call" /\ req[t].op = "sync"
            /\ pc'[t] = "done"
            /\ seen'[t].out.kind \in {"err", "timeout"} )
          => resp'[t].body.rooms = fallback_room_infos(loc[t].client)]_vars

\* The session of the finished request of task t was in the registry when
\* the handler looked it up.  Client handles never change (C11).
HadClient(t) == seen[t].known /\ sessions[req[t].sid].client # None
HadNoClient(t) == seen[t].known /\ sessions[req[t].sid].client = None

\* C22: room_messages, send_message, join_room and leave_room on an existing
\* session with a client answer a room id string that does not parse with a
\* 4xx response, and start no capability call.
C22_InvalidRoomIdIsClientError ==
    \A t \in Tasks :
       ( /\ pc[t] = "done" /\ req[t].op \in RoomOps
         /\ HadClient(t)
         /\ ~is_room_id(req[t].room) )
       => /\ resp[t].code \in 400..499
          /\ seen[t].calls = 0

\* C23: on a registered session that has no client handle, sync, rooms,
\* room_messages, send_message, join_room, leave_room and
\* login_sso_callback answer with a 4xx response and start no capability
\* call; the handlers with a room id answer 401 whether or not the room id
\* parses, the client being checked first.
C23_NoClientIsClientError ==
    \A t \in Tasks :
       ( /\ pc[t] = "done"
         /\ req[t].op \in {"sync", "rooms", "login_sso_callback"} \cup RoomOps
         /\ HadNoClient(t) )
       => /\ resp[t].code \in 400..499
          /\ seen[t].calls = 0
          /\ seen[t].out = NoOut
          /\ req[t].op \in RoomOps => resp[t].code = 401

\* A send with a room id that does not parse, on a session without a
\* client, has been answered 401.
C23_Witness ==
    \E t \in Tasks :
       /\ Done(t, "send_message")
       /\ HadNoClient(t)
       /\ ~is_room_id(req[t].room)
       /\ resp[t].code = 401

\* The text each strict write answers a missed deadline with, and the text
\* it puts before the capability's error.
TimeoutTextOf(op) ==
    CASE op = "send_message" -> "Request to send message timed out"
      [] op = "create_room"  -> "Request to create room timed out"
      [] op = "join_room"    -> "Request to join room timed out"
      [] op = "leave_room"   -> "Request to leave room timed out"

FailurePrefixOf(op) ==
    CASE op = "send_message" -> "Failed to send message: "
      [] op = "create_room"  -> "Failed to create room: "
      [] op = "join_room"    -> "Failed to join room: "
      [] op = "leave_room"   -> "Failed to leave room: "

\* C24: a strict write that missed its deadline answers with an error whose
\* text is the timeout text of that operation, a strict write whose
\* capability call failed answers with the failure prefix of that operation
\* followed by the capability's text, the two texts differ, and neither
\* response is a success or carries a field of the success payload.
C24_WriteTimeoutDistinctFromError ==
    \A t \in Tasks :
       (pc[t] = "done" /\ req[t].op \in StrictWrites /\ Degraded(t)) =>
          /\ ~Success(resp[t])
          /\ DOMAIN resp[t].body = {"error"}
          /\ Len(resp[t].body.error) = 2
          /\ seen[t].out.kind = "timeout" =>
                /\ resp[t].body.error[2] = TimeoutTextOf(req[t].op)
                /\ resp[t].body.error[2] # FailurePrefixOf(req[t].op)
          /\ seen[t].out.kind = "err" =>
                resp[t].body.error[2] =
                   <<FailurePrefixOf(req[t].op), seen[t].out.text>>

\* A leave that missed its deadline and a create whose call failed have
\* both been answered.
C24_Witness ==
    \E t, u \in Tasks :
       /\ Done(t, "leave_room") /\ seen[t].out.kind = "timeout"
       /\ Done(u, "create_room") /\ seen[u].out.kind = "err"
       /\ resp[t].code = 500 /\ resp[u].code = 500

\* C25: a finished login_sso_callback answers 200 exactly when the session
\* was in the registry, has a client and the capability accepted the token;
\* otherwise (unknown id, no client, rejected token) it answers 400, and
\* after a rejected token the session is still in the registry with its
\* client.
C25_CallbackResult ==
    \A t \in Tasks :
       Done(t, "login_sso_callback") =>
          /\ resp[t].code \in {200, 400}
          /\ resp[t].code = 200 <=> (HadClient(t) /\ seen[t].out.kind = "ok")
          /\ ~seen[t].known => resp[t].code = 400
          /\ HadNoClient(t) => resp[t].code = 400
          /\ seen[t].out.kind = "err" =>
                /\ resp[t].code = 400
                /\ HadClient(t)
                /\ contains_key(sessions, req[t].sid)

\* A callback was rejected with 400 and a status request that began after
\* it had returned found the session and reported the rejection.
C25_Witness ==
    \E t, u \in Tasks :
       /\ Done(t, "login_sso_callback")
       /\ seen[t].out.kind = "err"
       /\ resp[t].code = 400
       /\ Done(u, "login_status")
       /\ req[u].sid = req[t].sid
       /\ t \notin req[u].during
       /\ resp[u].code = 200
       /\ resp[u].body.status = "error"

\* C26: the process main starts serves every route of the HTTP surface: no
\* request for an operation api::config registers, create_room, join_room
\* and leave_room among them, is answered 404.
C26_MainServesEveryRoute ==
    \A t \in Tasks :
       (pc[t] = "done" /\ req[t].op \in config_services) =>
          resp[t].code # NotFound.code

\* C27: a step of a login_sso_start that ends with an error (the URL did
\* not parse, the client could not be built, the SSO URL was not obtained)
\* leaves the registry as it was, and so does the step in which the SSO URL
\* is obtained; the registry gains an entry from a login_sso_start only in
\* the step that answers 200, after both capability calls, and the entry's
\* key is the session_id of the response.
C27_StartAllOrNothing ==
    [][\A t \in Tasks :
          (req[t].op = "login_sso_start" /\ pc'[t] # pc[t]) =>
             /\ pc[t] = "sso_call" => sessions' = sessions
             /\ (pc'[t] = "done" /\ resp'[t].code # 200) => sessions' = sessions
             /\ sessions' # sessions =>
                   /\ pc'[t] = "done"
                   /\ resp'[t].code = 200
                   /\ loc[t].calls = 2
                   /\ resp'[t].body.session_id \notin DOMAIN sessions
                   /\ DOMAIN sessions' =
                         DOMAIN sessions \cup {resp'[t].body.session_id}]_vars

\* One login_sso_start failed to obtain the SSO URL, another succeeded, and
\* the registry holds the session of the second only.
C27_Witness ==
    \E t, u \in Tasks :
       /\ Done(t, "login_sso_start")
       /\ seen[t].out.kind = "sso_err"
       /\ resp[t].code = 500
       /\ Done(u, "login_sso_start")
       /\ resp[u].code = 200
       /\ DOMAIN sessions = {resp[u].body.session_id}

\* C28: a login_sso_callback on an existing session with a client writes
\* that session's stored error in one step, the step in which it returns:
\* None after an accepted token, the capability's text after a rejected one,
\* every other record staying as it was.  Its other steps, and every step
\* of a callback for an unknown id or a session without a client, leave the
\* registry as it was.
C28_CallbackWritesOwnErrorOnce ==
    [][\A t \in Tasks :
          (req[t].op = "login_sso_callback" /\ pc'[t] # pc[t]) =>
             /\ pc[t] # "cb_finish" => sessions' = sessions
             /\ pc[t] = "cb_finish" =>
                   /\ pc'[t] = "done"
                   /\ sessions' =
                        [sessions EXCEPT ![req[t].sid].error =
                           IF loc[t].out.kind = "ok" THEN None
                           ELSE loc[t].out.text]
             /\ ( /\ pc[t] = "lock_wait" /\ pc'[t] = "done" )
                => ~( /\ contains_key(sessions, req[t].sid)
                      /\ sessions[req[t].sid].client # None )]_vars

\* A rejected callback has left its text on its own session, and the other
\* session, which has a client too, has no stored error.
C28_Witness ==
    \E t \in Tasks : \E s \in SessionIds :
       /\ Done(t, "login_sso_callback")
       /\ seen[t].out.kind = "err"
       /\ s # req[t].sid
       /\ DOMAIN sessions = SessionIds
       /\ sessions[req[t].sid].error = seen[t].out.text
       /\ sessions[s].client # None
       /\ sessions[s].error = None

RegistryReaders ==
    {"login_status", "sync", "rooms", "room_messages", "send_message",
     "create_room", "join_room", "leave_room"}

\* The task whose handler takes the step.
Steps(t) == pc'[t] # pc[t]

\* C29: no step of login_status, sync, rooms, room_messages, send_message,
\* create_room, join_room or leave_room changes the registry, whatever the
\* request's outcome; a step that adds an entry is a step of
\* login_sso_start (or of the tests' create_test_session), and a step that
\* changes a stored error is a step of login_sso_callback.
C29_ReadersLeaveRegistryAlone ==
    [][/\ \A t \in Tasks :
            (req[t].op \in RegistryReaders /\ Steps(t)) => sessions' = sessions
       /\ DOMAIN sessions' # DOMAIN sessions =>
            \E t \in Tasks :
               /\ Steps(t)
               /\ req[t].op \in {"login_sso_start", "create_test_session"}
       /\ (\E s \in DOMAIN sessions : sessions'[s].error # sessions[s].error) =>
            \E t \in Tasks : Steps(t) /\ req[t].op = "login_sso_callback"]_vars

\* A status request and a failed sync have returned on a session whose
\* stored error a rejected callback had set, and the error is still there.
C29_Witness ==
    \E t, u \in Tasks :
       /\ Done(t, "login_status") /\ resp[t].code = 200
       /\ resp[t].body.status = "error"
       /\ Done(u, "sync") /\ seen[u].out.kind = "err"
       /\ req[u].sid = req[t].sid
       /\ sessions[req[t].sid].error \in ErrTexts

\* The status of a session as the callbacks completed on it determine it:
\* logged_in once one was accepted, else the text of the latest rejection,
\* else pending.
StatusAfter(h) ==
    IF h.accepted THEN [status |-> "logged_in"]
    ELSE IF h.last \in ErrTexts THEN [status |-> "error", error |-> h.last]
    ELSE [status |-> "pending"]

\* C30: the answer of login_status on a session with a client is the status
\* that the callbacks completed so far determine, also when a callback on
\* that session is in progress: it is the status before that callback or
\* the status after it, never a mix of the new authenticated flag and the
\* old stored error.
C30_StatusNeverTorn ==
    \A t \in Tasks :
       (Done(t, "login_status") /\ HadClient(t)) =>
          /\ resp[t].code = 200
          /\ resp[t].body = StatusAfter(seen[t].hist)

\* A status request that arrived while an accepted callback on the same
\* session, itself a retry after a rejection, was in progress.
C30_Witness ==
    \E t, u \in Tasks :
       /\ Done(u, "login_sso_callback")
       /\ seen[u].out.kind = "ok"
       /\ seen[u].hist.rejected
       /\ ~seen[u].hist.accepted
       /\ Done(t, "login_status")
       /\ req[t].sid = req[u].sid
       /\ u \in req[t].during
       /\ resp[t].body = [status |-> "logged_in"]

\* C31: login_status on a session with a client answers logged_in when the
\* client's authenticated flag is set, whatever the stored error; else
\* "error" with the stored error when there is one; else pending.  The
\* stored error is the text of the latest completed callback when that one
\* was rejected, and None when it was accepted or none has completed.
C31_StatusPriority ==
    [][\A t \in Tasks :
          ( /\ req[t].op = "login_status"
            /\ pc[t] = "lock_wait" /\ pc'[t] = "done"
            /\ contains_key(sessions, req[t].sid)
            /\ sessions[req[t].sid].client # None )
          => LET s == sessions[req[t].sid]
                 h == history[req[t].sid]
             IN /\ s.error = (IF h.last \in ErrTexts THEN h.last ELSE None)
                /\ resp'[t].code = 200
                /\ resp'[t].body =
                     IF logged_in[s.client] THEN [status |-> "logged_in"]
                     ELSE IF s.error # None
                          THEN [status |-> "error", error |-> h.last]
                          ELSE [status |-> "pending"]]_vars

\* logged_in was answered while the session stores the text of a rejection
\* that came after the accepted callback.
C31_Witness ==
    \E t \in Tasks :
       /\ Done(t, "login_status")
       /\ resp[t].body = [status |-> "logged_in"]
       /\ sessions[req[t].sid].error \in ErrTexts
       /\ seen[t].hist.last = sessions[req[t].sid].error

\* C32: a capability call started under a deadline ends in one step, with
\* exactly one of the outcomes ok, err and timeout, and that step produces
\* the request's response and leaves the registry as it was; nothing about
\* the call changes while it is awaited; and once the response is produced,
\* after a fired deadline in particular, the task's response and record
\* stay as they are until the task is given another request.
C32_OneOutcomeOneResponse ==
    [][\A t \in Tasks :
          /\ (pc[t] = "call" /\ pc'[t] # "call") =>
                /\ pc'[t] = "done"
                /\ seen'[t].out.kind \in {"ok", "err", "timeout"}
                /\ resp[t] = NoResp
                /\ resp'[t] # NoResp
                /\ sessions' = sessions
          /\ (pc[t] = "call" /\ pc'[t] = "call") =>
                /\ loc'[t] = loc[t]
                /\ resp'[t] = NoResp
          /\ (pc[t] = "done" /\ nreq' = nreq) =>
                /\ pc'[t] = "done"
                /\ resp'[t] = resp[t]
                /\ seen'[t] = seen[t]
                /\ loc'[t] = NoLoc]_vars

\* A send that began while a sync was outstanding has missed its deadline,
\* and the sync has succeeded.
C32_Witness ==
    \E t, u \in Tasks :
       /\ Done(t, "send_message") /\ seen[t].out.kind = "timeout"
       /\ Done(u, "sync") /\ seen[u].out.kind = "ok"
       /\ u \in req[t].during
       /\ resp[t].code = 500

RoomIdsOf(infos) == [i \in 1..Len(infos) |-> infos[i].room_id]
IsName(name, room) ==
    \/ Len(name) = 1 /\ name[1] = "Unknown"
    \/ Len(name) = 2 /\ name[1] = "name of" /\ name[2] = room

\* C33: the rooms handler starts from the client's joined rooms in the
\* capability's order; every display-name fetch, whatever it yields, adds
\* the entry of its room, named by the fetched name or "Unknown", and the
\* request goes on; and a response given before the overall deadline fires
\* is a 200 with exactly these entries, one per joined room, in that order.
C33_RoomsListedDespiteNameFailures ==
    [][\A t \in Tasks :
          req[t].op = "rooms" =>
             /\ (pc[t] = "lock_wait" /\ pc'[t] = "names") =>
                   /\ loc'[t].list = joined_rooms(loc'[t].client)
                   /\ loc'[t].list # <<>>
                   /\ loc'[t].infos = <<>>
             /\ (pc[t] = "names" /\ pc'[t] = "names" /\ loc'[t] # loc[t]) =>
                   /\ Len(loc'[t].infos) = Len(loc[t].infos) + 1
                   /\ RoomIdsOf(loc'[t].infos) \o loc'[t].list =
                         RoomIdsOf(loc[t].infos) \o loc[t].list
                   /\ LET e == loc'[t].infos[Len(loc'[t].infos)]
                      IN IsName(e.name, e.room_id)
             /\ (pc[t] = "names" /\ pc'[t] = "done"
                 /\ seen'[t].out.kind = "ok") =>
                   /\ resp'[t].code = 200
                   /\ RoomIdsOf(resp'[t].body.array) =
                         RoomIdsOf(loc[t].infos) \o loc[t].list
                   /\ \A i \in 1..Len(loc[t].infos) :
                         resp'[t].body.array[i] = loc[t].infos[i]
                   /\ LET e == resp'[t].body.array[Len(resp'[t].body.array)]
                      IN IsName(e.name, e.room_id)]_vars

\* A rooms request has listed every room of the homeserver in the
\* capability's order, one of them as "Unknown" and one by its name.
C33_Witness ==
    \E t \in Tasks :
       /\ Done(t, "rooms")
       /\ seen[t].out.kind = "ok"
       /\ RoomIdsOf(resp[t].body.array) = RoomSeq
       /\ \E i, j \in 1..Len(resp[t].body.array) :
             /\ Len(resp[t].body.array[i].name) = 1
             /\ Len(resp[t].body.array[j].name) = 2

ClientOps ==
    {"sync", "rooms", "room_messages", "send_message", "create_room",
     "join_room", "leave_room"}

\* C34: sync, rooms, room_messages, send_message, create_room, join_room
\* and leave_room on a registered session answer 401 exactly when the
\* session has no client handle; with a client they go on whatever the
\* login state, so that sync and create_room, which have no further
\* precondition, and join_room with a room id that parses, start their
\* capability call.
C34_LoginStateNotConsulted ==
    \A t \in Tasks :
       (pc[t] = "done" /\ req[t].op \in ClientOps /\ seen[t].known) =>
          /\ resp[t].code = 401 <=> HadNoClient(t)
          /\ ( /\ HadClient(t)
               /\ \/ req[t].op \in {"sync", "create_room"}
                  \/ req[t].op = "join_room" /\ is_room_id(req[t].room) )
             => /\ seen[t].calls = 1
                /\ seen[t].out.kind \in {"ok", "err", "timeout"}

\* A sync and a create_room on a session whose only callback was rejected
\* have both reached the capability, with success.
C34_Witness ==
    \E t, u \in Tasks :
       /\ Done(t, "sync") /\ Done(u, "create_room")
       /\ req[t].sid = req[u].sid
       /\ HadClient(t)
       /\ seen[t].hist.last \in ErrTexts /\ ~seen[t].hist.accepted
       /\ seen[u].hist.last \in ErrTexts /\ ~seen[u].hist.accepted
       /\ seen[t].out.kind = "ok"
       /\ seen[u].out.kind = "ok"

Waiting(t) == \E i \in 1..Len(lockQueue) : lockQueue[i] = t
HoldsAcrossAwait(t) == pc[t] \in {"cb_call", "cb_finish", "call", "names"}

\* The lock's queue and holders agree with where the handlers are, and the
\* lock, when requested, can be handed on.
LockDiscipline ==
    /\ \A t \in Tasks :
          /\ Waiting(t) <=> pc[t] = "lock_wait"
          /\ t \in lockHolders <=> HoldsAcrossAwait(t)
    /\ \A i, j \in 1..Len(lockQueue) : lockQueue[i] = lockQueue[j] => i = j
    /\ lockQueue # <<>> =>
          \/ CanAcquire(Head(lockQueue))
          \/ \E h \in lockHolders : HoldsAcrossAwait(h)

\* C35: the registry lock cannot deadlock.  A task waits for the lock in
\* one place of its handler only, and it is in the queue exactly then and
\* once; a holder is at an await of its handler, never waiting for the lock
\* again; a task that has returned holds nothing; a handler that has left
\* the wait does not come back to it within the same request; and whenever
\* the lock is requested, the first waiter can take it or some holder can
\* go on to its return without the lock.
C35_LockCannotDeadlock ==
    [][/\ LockDiscipline'
       /\ \A t \in Tasks :
            /\ (pc'[t] = "lock_wait" /\ pc[t] # "lock_wait") =>
                  pc[t] \in {"idle", "done", "sso_call"}
            /\ (pc[t] = "sso_call" /\ pc'[t] = "lock_wait") =>
                  t \notin lockHolders]_vars

\* A writer is first in line and has to wait for a reader that is at its
\* capability call.
C35_Witness ==
    \E t, h \in Tasks :
       /\ lockQueue # <<>>
       /\ Head(lockQueue) = t
       /\ IsWriter(t)
       /\ ~CanAcquire(t)
       /\ h \in lockHolders
       /\ pc[h] = "call"

InExchange(t) == pc[t] \in {"cb_call", "cb_finish"}

\* C36: at most one login_sso_callback is inside its token exchange at any
\* time, and it is then the only holder of the registry lock; so callbacks
\* take effect one after the other, in the order in which they return: on
\* every session with a client and no exchange in progress, the stored
\* error and the authenticated flag are those that the callbacks completed
\* on it, taken in that order, leave behind.
C36_TokenExchangesSerialized ==
    /\ \A t, u \in Tasks : (InExchange(t) /\ InExchange(u)) => t = u
    /\ \A t \in Tasks : InExchange(t) => lockHolders = {t}
    /\ \A s \in DOMAIN sessions :
          ( /\ sessions[s].client # None
            /\ \A t \in Tasks : InExchange(t) => req[t].sid # s )
          => /\ sessions[s].error =
                  (IF history[s].last \in ErrTexts THEN history[s].last ELSE None)
             /\ logged_in[sessions[s].client] <=> history[s].accepted

\* Two callbacks that overlapped, one accepted and one rejected, have both
\* returned.
C36_Witness ==
    \E t, u \in Tasks :
       /\ Done(t, "login_sso_callback") /\ seen[t].out.kind = "ok"
       /\ Done(u, "login_sso_callback") /\ seen[u].out.kind = "err"
       /\ u \in req[t].during \/ t \in req[u].during

\* A response built by ApiError::error_response: a JSON body with an error field.
IsErrorResponse(r) == r.code \notin {0, 200} /\ "error" \in DOMAIN r.body

\* C37: every error response carries a non-empty error field and the status
\* fixed by the kind of error: 400 exactly for an invalid session, 401
\* exactly for a session that is not logged in, and 500 for every other
\* error; hence a strict write whose capability call failed or ran past its
\* deadline is answered 500.
C37_ErrorStatusMapping ==
    \A t \in Tasks :
       pc[t] = "done" =>
          /\ IsErrorResponse(resp[t]) =>
                /\ Len(resp[t].body.error) >= 1
                /\ resp[t].code \in {400, 401, 500}
                /\ resp[t].code = 400 <=> resp[t].body.error[1] = "Invalid session ID"
                /\ resp[t].code = 401 <=> resp[t].body.error[1] = "Not logged in"
          /\ (req[t].op \in StrictWrites /\ Degraded(t)) =>
                /\ IsErrorResponse(resp[t])
                /\ resp[t].code = 500

\* A read refused with 401 next to a strict write that ran past its deadline
\* and was answered 500.
C37_Witness ==
    \E t, u \in Tasks :
       /\ pc[t] = "done" /\ IsErrorResponse(resp[t]) /\ resp[t].code = 401
       /\ pc[u] = "done" /\ req[u].op \in StrictWrites
       /\ seen[u].out.kind = "timeout" /\ resp[u].code = 500

\* C38: the unwrap of the session lookup in login_sso_callback never meets a
\* missing entry: a callback enters its token exchange only in the step in
\* which it took the write lock and found its key, the registry being left
\* alone by that step; until it returns it is the only holder of the lock,
\* its entry stays in the registry with its client, and the registry changes
\* only in the step in which this callback returns.
C38_CallbackUnwrapFindsEntry ==
    [][\A t \in Tasks :
          /\ (~InExchange(t) /\ InExchange(t)') =>
                /\ pc[t] = "lock_wait" /\ pc'[t] = "cb_call"
                /\ Head(lockQueue) = t /\ lockHolders = {}
                /\ contains_key(sessions, req[t].sid)
                /\ sessions' = sessions
          /\ InExchange(t)' =>
                /\ lockHolders' = {t}
                /\ contains_key(sessions', req'[t].sid)
                /\ sessions'[req'[t].sid].client # None
          /\ (InExchange(t) /\ sessions' # sessions) =>
                /\ pc[t] = "cb_finish" /\ pc'[t] = "done"
                /\ DOMAIN sessions' = DOMAIN sessions
                /\ \A s \in DOMAIN sessions \ {req[t].sid} : sessions'[s] = sessions[s]
      ]_vars

\* A callback is inside its token exchange while another request that writes
\* to the registry is queued behind it.
C38_Witness ==
    \E t, u \in Tasks :
       /\ pc[t] = "cb_finish"
       /\ u # t /\ Waiting(u)
       /\ req[u].op \in {"login_sso_start", "create_test_session", "login_sso_callback"}

====
